---- MODULE Spec2Model ----
(***************************************************************************)
(* Box2DPlayerMovement, src/main.cpp: the World / Player / Platform        *)
(* classes and the main loop, as a state machine.  The physics engine      *)
(* (box2d), the renderer and the key source (raylib) are the environment:  *)
(* the engine's step may move the Player body to any pose and report any   *)
(* batch of sensor events, and every key query may answer either way.      *)
(*                                                                         *)
(* Lengths are kept in hundredths of a metre and impulses in tenths of a   *)
(* kg*m/s, so that the float literals of the source (x / 100.0f, 0.50f,    *)
(* 10.0f) are integers.                                                    *)
(***************************************************************************)
EXTENDS Integers, Sequences, FiniteSets, TLC

\* ------------------------------------------------------------------ bounds
MaxTicks == 3
MaxEvents == 2

\* --------------------------------------------------------- program constants
WINDOW_WIDTH == 640
WINDOW_HEIGHT == 480
PPM == 100
\* {mass * .50f, 0.0f}: the horizontal coefficient, in tenths
MoveCoeff == 5
\* {0.0f, -(mass * 10.0f)}: the jump coefficient, in tenths
JumpCoeff == 100

VARIABLES
    pc,                 \* position in main / World::update / World::unload
    tick,               \* iterations of main's while loop started so far
    input,              \* what IsKeyDown / IsKeyPressed answered in this tick
    calls,              \* engine and renderer calls of this tick, in call order
    m_feetOnGround,     \* Player::m_feetOnGround
    m_centerPostion,    \* Player::m_centerPostion (the cached position)
    m_size,             \* Player::m_size
    m_platforms,        \* World::m_platforms
    m_invisibleWalls,   \* World::m_invisibleWalls
    b2Position,         \* engine: the Player body's position
    b2Mass,             \* engine: the Player body's mass
    b2SensorEvents,     \* engine: sensor events of the last step
    b2Destroyed,        \* engine: handles passed to b2DestroyBody / b2DestroyWorld
    b2Overlaps,         \* engine: shapes now overlapping the foot sensor
    feetAtTickStart,    \* history: m_feetOnGround when the tick began
    held,               \* history: consecutive ticks with only right / only left held
    applied             \* history: impulses World::update's key branch applied in them

vars == <<pc, tick, input, calls, m_feetOnGround, m_centerPostion, m_size,
          m_platforms, m_invisibleWalls, b2Position, b2Mass, b2SensorEvents,
          b2Destroyed, b2Overlaps, feetAtTickStart, held, applied>>

\* ------------------------------------------------------------ unit conversion
px2M(n) == (n * 100) \div PPM

m2Px(n) == (n * PPM) \div 100

\* ------------------------------------------------------------- engine handles
\* b2CreateWorld, then b2CreateBody once per entity in construction order
m_worldID == 0

PlayerBody == 1

\* The Player body's second shape (after the capsule) is the foot sensor.
m_footID == [index1 |-> 2, world0 |-> 0, generation |-> 1]

\* A handle of the same slot from an earlier generation, and a platform's shape.
StaleFootId == [index1 |-> 2, world0 |-> 0, generation |-> 0]

PlatformShapeId == [index1 |-> 3, world0 |-> 0, generation |-> 1]

ShapeIds == {m_footID, StaleFootId, PlatformShapeId}

Masses == {2}

\* The poses a step may leave the Player body in: where it was created, or moved.
b2Positions == {<<px2M(30), px2M(300)>>, <<px2M(31), px2M(301)>>}

SeqsUpTo(n) == UNION {[1..k -> ShapeIds] : k \in 0..n}

\* What one step may report: at most MaxEvents events over the two lists.
SensorBatches ==
    {b \in [beginEvents : SeqsUpTo(MaxEvents), endEvents : SeqsUpTo(MaxEvents)] :
        Len(b.beginEvents) + Len(b.endEvents) <= MaxEvents}

NoEvents == [beginEvents |-> <<>>, endEvents |-> <<>>]

\* Every handle over two values of each identity component.
AllShapeIds == [index1 : {2, 3}, world0 : {0, 1}, generation : {0, 1}]

\* A step that reports at most one event, of any handle.
SingleEventBatches ==
    {NoEvents}
    \cup {[beginEvents |-> <<e>>, endEvents |-> <<>>] : e \in AllShapeIds}
    \cup {[beginEvents |-> <<>>, endEvents |-> <<e>>] : e \in AllShapeIds}

\* ------------------------------------------------------------------- entities
BoxBody(body, centerX, centerY, fullWidth, fullHeight) ==
    [m_body |-> body,
     m_size |-> <<px2M(fullWidth), px2M(fullHeight)>>,
     m_centerPostion |-> <<px2M(centerX), px2M(centerY)>>]

WorldPlatforms ==
    << BoxBody(2, WINDOW_WIDTH \div 2, WINDOW_HEIGHT - 20, WINDOW_WIDTH, 50),
       BoxBody(3, WINDOW_WIDTH \div 4, 400, 130, 30),
       BoxBody(4, WINDOW_WIDTH \div 2, 360, 130, 30),
       BoxBody(5, (WINDOW_WIDTH * 3) \div 4, 400, 130, 30) >>

WorldInvisibleWalls ==
    << BoxBody(6, 0, WINDOW_HEIGHT \div 2, 1, WINDOW_HEIGHT),
       BoxBody(7, WINDOW_WIDTH, WINDOW_HEIGHT \div 2, 1, WINDOW_HEIGHT) >>

BodiesOf(entities) == {entities[i].m_body : i \in 1..Len(entities)}

OwnedBodies == {PlayerBody} \cup BodiesOf(m_platforms) \cup BodiesOf(m_invisibleWalls)

\* ------------------------------------------------------------ the call record
Call(op, x, y) == [op |-> op, x |-> x, y |-> y]

b2Body_ApplyLinearImpulse(x, y) == Call("b2Body_ApplyLinearImpulse", x, y)

b2DestroyBody(body) == [op |-> "b2DestroyBody", id |-> body]

b2DestroyWorld(world) == [op |-> "b2DestroyWorld", id |-> world]

RECURSIVE SelectCalls(_, _)
SelectCalls(s, op) ==
    IF s = <<>> THEN <<>>
    ELSE IF Head(s).op = op THEN <<Head(s)>> \o SelectCalls(Tail(s), op)
    ELSE SelectCalls(Tail(s), op)

Impulses(s) == SelectCalls(s, "b2Body_ApplyLinearImpulse")

\* --------------------------------------------------------------------- Player
\* A comparison that leaves the owning world out.
isShapeIdEqual_noWorld(idOne, idTwo) ==
    /\ idOne.generation = idTwo.generation
    /\ idOne.index1 = idTwo.index1

\* A comparison by slot index alone.
isShapeIdEqual_indexOnly(idOne, idTwo) == idOne.index1 = idTwo.index1

isShapeIdEqual(idOne, idTwo) ==
    /\ idOne.generation = idTwo.generation
    /\ idOne.index1 = idTwo.index1
    /\ idOne.world0 = idTwo.world0

moveRight(mass) == <<b2Body_ApplyLinearImpulse(mass * MoveCoeff, 0)>>

\* The left impulse with the sign forgotten.
moveLeft_unsigned(mass) == <<b2Body_ApplyLinearImpulse(mass * MoveCoeff, 0)>>

moveLeft(mass) == <<b2Body_ApplyLinearImpulse(-(mass * MoveCoeff), 0)>>

\* A jump that is not gated by the foot sensor.
jump_ungated(mass, feetOnGround) ==
    <<b2Body_ApplyLinearImpulse(0, -(mass * JumpCoeff))>>

jump(mass, feetOnGround) ==
    IF feetOnGround
    THEN <<b2Body_ApplyLinearImpulse(0, -(mass * JumpCoeff))>>
    ELSE <<>>

\* A foot status that flips on every call.
setFootStatus_toggle(status, feetOnGround) == ~feetOnGround

\* A foot status that is set and never cleared.
setFootStatus_neverCleared(status, feetOnGround) ==
    IF status THEN TRUE ELSE feetOnGround

setFootStatus(status, feetOnGround) ==
    IF status # feetOnGround THEN status ELSE feetOnGround

\* A loop without the identity test: any event sets the foot status.
SensorLoop_noFilter(events, status, feetOnGround) ==
    IF events = <<>> THEN feetOnGround ELSE setFootStatus(status, feetOnGround)

\* One loop of World::handleSensorEvents: every event of the list in order,
\* a matching one setting the foot status to `status`.
RECURSIVE SensorLoop(_, _, _)
SensorLoop(events, status, feetOnGround) ==
    IF events = <<>> THEN feetOnGround
    ELSE SensorLoop(Tail(events), status,
                    IF isShapeIdEqual(Head(events), m_footID)
                    THEN setFootStatus(status, feetOnGround)
                    ELSE feetOnGround)

\* The begin loop alone: end events are not looked at.
handleSensorEvents_beginOnly(sensorContactEvents, feetOnGround) ==
    SensorLoop(sensorContactEvents.beginEvents, TRUE, feetOnGround)

\* The end loop before the begin loop.
handleSensorEvents_endFirst(sensorContactEvents, feetOnGround) ==
    SensorLoop(sensorContactEvents.beginEvents, TRUE,
               SensorLoop(sensorContactEvents.endEvents, FALSE, feetOnGround))

\* The two loops with their statuses exchanged.
handleSensorEvents_exchanged(sensorContactEvents, feetOnGround) ==
    SensorLoop(sensorContactEvents.endEvents, TRUE,
               SensorLoop(sensorContactEvents.beginEvents, FALSE, feetOnGround))

handleSensorEvents(sensorContactEvents, feetOnGround) ==
    SensorLoop(sensorContactEvents.endEvents, FALSE,
               SensorLoop(sensorContactEvents.beginEvents, TRUE, feetOnGround))

\* ---------------------------------------------------------------- World::update
\* The key branch of World::update: if (D) moveRight else if (A) moveLeft.
\* Two independent ifs in place of if / else if.
MoveCalls_bothBranches(keyD, keyA, mass) ==
    (IF keyD THEN moveRight(mass) ELSE <<>>) \o (IF keyA THEN moveLeft(mass) ELSE <<>>)

\* A plain else in place of else if.
MoveCalls_plainElse(keyD, keyA, mass) ==
    IF keyD THEN moveRight(mass) ELSE moveLeft(mass)

MoveCalls(keyD, keyA, mass) ==
    IF keyD THEN moveRight(mass)
    ELSE IF keyA THEN moveLeft(mass)
    ELSE <<>>

\* The statement order of World::update and of main's loop body.
\* The jump key read after handleSensorEvents.
NextPhase_jumpAfterDrain(p) ==
    CASE p = "update_move"          -> "player_update"
      [] p = "player_update"        -> "world_step"
      [] p = "world_step"           -> "handle_sensor_events"
      [] p = "handle_sensor_events" -> "update_jump"
      [] p = "update_jump"          -> "draw"
      [] p = "draw"                 -> "main_loop"

\* handleSensorEvents called before b2World_Step.
NextPhase_drainBeforeStep(p) ==
    CASE p = "update_move"          -> "update_jump"
      [] p = "update_jump"          -> "player_update"
      [] p = "player_update"        -> "handle_sensor_events"
      [] p = "handle_sensor_events" -> "world_step"
      [] p = "world_step"           -> "draw"
      [] p = "draw"                 -> "main_loop"

NextPhase(p) ==
    CASE p = "update_move"          -> "update_jump"
      [] p = "update_jump"          -> "player_update"
      [] p = "player_update"        -> "world_step"
      [] p = "world_step"           -> "handle_sensor_events"
      [] p = "handle_sensor_events" -> "draw"
      [] p = "draw"                 -> "main_loop"

NoInput == [D |-> FALSE, A |-> FALSE, SPACE |-> FALSE]

NoCount == [right |-> 0, left |-> 0, other |-> 0]

RECURSIVE CountCalls(_, _)
CountCalls(s, c) ==
    IF s = <<>> THEN 0
    ELSE (IF Head(s) = c THEN 1 ELSE 0) + CountCalls(Tail(s), c)

\* The impulses of `s` by kind: the move-right one, the move-left one, any other.
Classify(s, mass) ==
    [right |-> CountCalls(s, b2Body_ApplyLinearImpulse(mass * MoveCoeff, 0)),
     left  |-> CountCalls(s, b2Body_ApplyLinearImpulse(-(mass * MoveCoeff), 0)),
     other |-> Len(s)
               - CountCalls(s, b2Body_ApplyLinearImpulse(mass * MoveCoeff, 0))
               - CountCalls(s, b2Body_ApplyLinearImpulse(-(mass * MoveCoeff), 0))]

AddCount(a, b) ==
    [right |-> a.right + b.right, left |-> a.left + b.left, other |-> a.other + b.other]

Init ==
    /\ pc = "main_loop"
    /\ tick = 0
    /\ input = NoInput
    /\ calls = <<>>
    /\ m_feetOnGround = FALSE
    /\ m_centerPostion = <<px2M(30), px2M(300)>>
    /\ m_size = <<px2M(60), px2M(60)>>
    /\ m_platforms = WorldPlatforms
    /\ m_invisibleWalls = WorldInvisibleWalls
    /\ b2Position = <<px2M(30), px2M(300)>>
    /\ b2Mass \in Masses
    /\ b2SensorEvents = NoEvents
    /\ b2Destroyed = <<>>
    /\ b2Overlaps = 0
    /\ feetAtTickStart = FALSE
    /\ held = [right |-> 0, left |-> 0]
    /\ applied = NoCount

\* while (!WindowShouldClose()): the window stays open and a tick begins
WindowStaysOpen ==
    /\ pc = "main_loop"
    /\ tick < MaxTicks
    /\ pc' = "update_move"
    /\ tick' = tick + 1
    /\ input' = NoInput
    /\ calls' = <<>>
    /\ feetAtTickStart' = m_feetOnGround
    /\ UNCHANGED <<b2Overlaps, m_feetOnGround, m_centerPostion, m_size, m_platforms,
                   m_invisibleWalls, b2Position, b2Mass, b2SensorEvents,
                   b2Destroyed, held, applied>>

\* while (!WindowShouldClose()): a close request ends the loop
WindowShouldClose ==
    /\ pc = "main_loop"
    /\ pc' = "unload_platforms"
    /\ UNCHANGED <<b2Overlaps, feetAtTickStart, tick, input, calls, m_feetOnGround, m_centerPostion, m_size,
                   m_platforms, m_invisibleWalls, b2Position, b2Mass,
                   b2SensorEvents, b2Destroyed, held, applied>>

\* World::update, the key branch
UpdateMove ==
    /\ pc = "update_move"
    /\ \E keyD \in BOOLEAN, keyA \in BOOLEAN :
         LET new == MoveCalls(keyD, keyA, b2Mass)
             onlyRight == keyD /\ ~keyA
             onlyLeft == keyA /\ ~keyD
         IN /\ input' = [input EXCEPT !.D = keyD, !.A = keyA]
            /\ calls' = calls \o new
            /\ held' = [right |-> IF onlyRight THEN held.right + 1 ELSE 0,
                        left  |-> IF onlyLeft THEN held.left + 1 ELSE 0]
            /\ applied' =
                 IF (onlyRight /\ held.right > 0) \/ (onlyLeft /\ held.left > 0)
                 THEN AddCount(applied, Classify(new, b2Mass))
                 ELSE IF onlyRight \/ onlyLeft THEN Classify(new, b2Mass)
                 ELSE NoCount
    /\ pc' = NextPhase(pc)
    /\ UNCHANGED <<b2Overlaps, feetAtTickStart, tick, m_feetOnGround, m_centerPostion, m_size, m_platforms,
                   m_invisibleWalls, b2Position, b2Mass, b2SensorEvents,
                   b2Destroyed>>

\* World::update, if (IsKeyPressed(KEY_SPACE)) m_player.jump()
UpdateJump ==
    /\ pc = "update_jump"
    /\ \E keySpace \in BOOLEAN :
         /\ input' = [input EXCEPT !.SPACE = keySpace]
         /\ calls' = IF keySpace THEN calls \o jump(b2Mass, m_feetOnGround) ELSE calls
    /\ pc' = NextPhase(pc)
    /\ UNCHANGED <<b2Overlaps, feetAtTickStart, tick, m_feetOnGround, m_centerPostion, m_size, m_platforms,
                   m_invisibleWalls, b2Position, b2Mass, b2SensorEvents,
                   b2Destroyed, held, applied>>

\* Player::update
PlayerUpdate ==
    /\ pc = "player_update"
    /\ m_centerPostion' = b2Position
    /\ calls' = Append(calls, Call("b2Body_GetPosition", 0, 0))
    /\ pc' = NextPhase(pc)
    /\ UNCHANGED <<b2Overlaps, feetAtTickStart, tick, input, m_feetOnGround, m_size, m_platforms,
                   m_invisibleWalls, b2Position, b2Mass, b2SensorEvents,
                   b2Destroyed, held, applied>>

\* b2World_Step: the solver moves the body and fills the step's sensor events
WorldStep ==
    /\ pc = "world_step"
    /\ b2Position' \in b2Positions
    /\ b2SensorEvents' \in SensorBatches
    /\ calls' = Append(calls, Call("b2World_Step", 0, 0))
    /\ pc' = NextPhase(pc)
    /\ UNCHANGED <<b2Overlaps, feetAtTickStart, tick, input, m_feetOnGround, m_centerPostion, m_size,
                   m_platforms, m_invisibleWalls, b2Mass, b2Destroyed, held, applied>>

\* World::handleSensorEvents
HandleSensorEvents ==
    /\ pc = "handle_sensor_events"
    /\ m_feetOnGround' = handleSensorEvents(b2SensorEvents, m_feetOnGround)
    /\ calls' = Append(calls, Call("b2World_GetSensorEvents", 0, 0))
    /\ pc' = NextPhase(pc)
    /\ UNCHANGED <<b2Overlaps, feetAtTickStart, tick, input, m_centerPostion, m_size, m_platforms,
                   m_invisibleWalls, b2Position, b2Mass, b2SensorEvents,
                   b2Destroyed, held, applied>>

\* A draw that refreshes the cached position from the engine itself.
Draw_refreshesCache ==
    /\ pc = "draw"
    /\ m_centerPostion' = b2Position
    /\ calls' = Append(calls, Call("DrawRectangle",
                                   m2Px(b2Position[1]) - m2Px(m_size[1]) \div 2,
                                   m2Px(b2Position[2]) - m2Px(m_size[2]) \div 2))
    /\ pc' = NextPhase(pc)
    /\ UNCHANGED <<b2Overlaps, feetAtTickStart, tick, input, m_feetOnGround, m_size,
                   m_platforms, m_invisibleWalls, b2Position, b2Mass,
                   b2SensorEvents, b2Destroyed, held, applied>>

\* BeginDrawing ... world.draw() ... EndDrawing: reads the cached state
Draw ==
    /\ pc = "draw"
    /\ calls' = Append(calls, Call("DrawRectangle",
                                   m2Px(m_centerPostion[1]) - m2Px(m_size[1]) \div 2,
                                   m2Px(m_centerPostion[2]) - m2Px(m_size[2]) \div 2))
    /\ pc' = NextPhase(pc)
    /\ UNCHANGED <<b2Overlaps, feetAtTickStart, tick, input, m_feetOnGround, m_centerPostion, m_size,
                   m_platforms, m_invisibleWalls, b2Position, b2Mass,
                   b2SensorEvents, b2Destroyed, held, applied>>

\* World::unload, for (platform : m_platforms) platform.unload()
UnloadPlatforms ==
    /\ pc = "unload_platforms"
    /\ b2Destroyed' = b2Destroyed \o
                        [i \in 1..Len(m_platforms) |-> b2DestroyBody(m_platforms[i].m_body)]
    /\ pc' = "unload_player"
    /\ UNCHANGED <<b2Overlaps, feetAtTickStart, tick, input, calls, m_feetOnGround, m_centerPostion, m_size,
                   m_platforms, m_invisibleWalls, b2Position, b2Mass,
                   b2SensorEvents, held, applied>>

\* World::unload, m_player.unload()
UnloadPlayer ==
    /\ pc = "unload_player"
    /\ b2Destroyed' = Append(b2Destroyed, b2DestroyBody(PlayerBody))
    /\ pc' = "destroy_world"
    /\ UNCHANGED <<b2Overlaps, feetAtTickStart, tick, input, calls, m_feetOnGround, m_centerPostion, m_size,
                   m_platforms, m_invisibleWalls, b2Position, b2Mass,
                   b2SensorEvents, held, applied>>

\* unload called inside the while loop: the loop goes on after it.
DestroyWorld_insideLoop ==
    /\ pc = "destroy_world"
    /\ b2Destroyed' = Append(b2Destroyed, b2DestroyWorld(m_worldID))
    /\ pc' = "main_loop"
    /\ UNCHANGED <<b2Overlaps, feetAtTickStart, tick, input, calls, m_feetOnGround,
                   m_centerPostion, m_size, m_platforms, m_invisibleWalls, b2Position,
                   b2Mass, b2SensorEvents, held, applied>>

\* World::unload, b2DestroyWorld(m_worldID)
DestroyWorld ==
    /\ pc = "destroy_world"
    /\ b2Destroyed' = Append(b2Destroyed, b2DestroyWorld(m_worldID))
    /\ pc' = "done"
    /\ UNCHANGED <<b2Overlaps, feetAtTickStart, tick, input, calls, m_feetOnGround, m_centerPostion, m_size,
                   m_platforms, m_invisibleWalls, b2Position, b2Mass,
                   b2SensorEvents, held, applied>>

Next ==
    \/ WindowStaysOpen
    \/ WindowShouldClose
    \/ UpdateMove
    \/ UpdateJump
    \/ PlayerUpdate
    \/ WorldStep
    \/ HandleSensorEvents
    \/ Draw
    \/ UnloadPlatforms
    \/ UnloadPlayer
    \/ DestroyWorld

Spec == Init /\ [][Next]_vars

\* b2World_Step, reporting one event of any handle identity
WorldStepAnyId ==
    /\ pc = "world_step"
    /\ b2Position' \in b2Positions
    /\ b2SensorEvents' \in SingleEventBatches
    /\ calls' = Append(calls, Call("b2World_Step", 0, 0))
    /\ pc' = NextPhase(pc)
    /\ UNCHANGED <<b2Overlaps, feetAtTickStart, tick, input, m_feetOnGround,
                   m_centerPostion, m_size, m_platforms, m_invisibleWalls, b2Mass,
                   b2Destroyed, held, applied>>

NextAnyId ==
    \/ WindowStaysOpen
    \/ WindowShouldClose
    \/ UpdateMove
    \/ UpdateJump
    \/ PlayerUpdate
    \/ WorldStepAnyId
    \/ HandleSensorEvents
    \/ Draw
    \/ UnloadPlatforms
    \/ UnloadPlayer
    \/ DestroyWorld

\* The program with sensor events of every handle identity.
SpecAnyId == Init /\ [][NextAnyId]_vars

\* `n` events of the foot sensor.
FootEvents(n) == [i \in 1..n |-> m_footID]

\* b2World_Step with the engine's overlap bookkeeping for the foot sensor: a
\* begin event for each shape that starts to overlap it, an end event for each
\* overlapping shape that stops.
WorldStepOverlaps ==
    /\ pc = "world_step"
    /\ b2Position' \in b2Positions
    /\ \E nBegin \in 0..MaxEvents, nEnd \in 0..MaxEvents :
         /\ nBegin + nEnd <= MaxEvents
         /\ nEnd <= b2Overlaps
         /\ b2SensorEvents' = [beginEvents |-> FootEvents(nBegin),
                               endEvents |-> FootEvents(nEnd)]
         /\ b2Overlaps' = b2Overlaps + nBegin - nEnd
    /\ calls' = Append(calls, Call("b2World_Step", 0, 0))
    /\ pc' = NextPhase(pc)
    /\ UNCHANGED <<feetAtTickStart, tick, input, m_feetOnGround, m_centerPostion,
                   m_size, m_platforms, m_invisibleWalls, b2Mass, b2Destroyed, held,
                   applied>>

NextOverlaps ==
    \/ WindowStaysOpen
    \/ WindowShouldClose
    \/ UpdateMove
    \/ UpdateJump
    \/ PlayerUpdate
    \/ WorldStepOverlaps
    \/ HandleSensorEvents
    \/ Draw
    \/ UnloadPlatforms
    \/ UnloadPlayer
    \/ DestroyWorld

\* The program with an engine that counts the foot sensor's overlaps.
SpecOverlaps == Init /\ [][NextOverlaps]_vars

\* ===================================================================== claims
MatchingBegin ==
    \E i \in DOMAIN b2SensorEvents.beginEvents : b2SensorEvents.beginEvents[i] = m_footID

MatchingEnd ==
    \E i \in DOMAIN b2SensorEvents.endEvents : b2SensorEvents.endEvents[i] = m_footID

OtherEvent ==
    \/ \E i \in DOMAIN b2SensorEvents.beginEvents : b2SensorEvents.beginEvents[i] # m_footID
    \/ \E i \in DOMAIN b2SensorEvents.endEvents : b2SensorEvents.endEvents[i] # m_footID

InUpdate ==
    pc \in {"update_move", "update_jump", "player_update", "world_step",
            "handle_sensor_events"}

\* World::update of some tick has returned: its events are drained.
Drained == tick >= 1 /\ ~InUpdate

\* The loop body of some tick has run to its end, draw included.
TickEnded == Drained /\ pc # "draw"

\* The impulses of `s` that have a horizontal component.
RECURSIVE Horizontal(_)
Horizontal(s) ==
    IF s = <<>> THEN <<>>
    ELSE IF Head(s).op = "b2Body_ApplyLinearImpulse" /\ Head(s).x # 0
         THEN <<Head(s)>> \o Horizontal(Tail(s))
         ELSE Horizontal(Tail(s))

\* The impulses of `s` that are not purely horizontal.
RECURSIVE NonHorizontal(_)
NonHorizontal(s) ==
    IF s = <<>> THEN <<>>
    ELSE IF Head(s).op = "b2Body_ApplyLinearImpulse" /\ ~(Head(s).x # 0 /\ Head(s).y = 0)
         THEN <<Head(s)>> \o NonHorizontal(Tail(s))
         ELSE NonHorizontal(Tail(s))

JumpImpulse == b2Body_ApplyLinearImpulse(0, -(b2Mass * JumpCoeff))

RightImpulse == b2Body_ApplyLinearImpulse(b2Mass * MoveCoeff, 0)

\* C1: the grounded flag changes value only in the step in which
\* World::handleSensorEvents runs, and only when the drained batch holds an
\* event whose shape identity is the foot sensor's; every other step of a tick
\* (the key branch, the jump, Player::update, the world step, the draw) and a
\* batch of other identities only leave it as it is.
C1_GroundedChangesOnlyOnFootEvent ==
    [][m_feetOnGround' # m_feetOnGround =>
          /\ pc = "handle_sensor_events"
          /\ MatchingBegin \/ MatchingEnd]_vars

\* Reached: a drain that set the flag from a batch that also held a stale
\* handle of the foot sensor's slot.
C1_Witness ==
    /\ pc = "draw"
    /\ m_feetOnGround
    /\ b2SensorEvents.beginEvents = <<StaleFootId, m_footID>>

\* C2: after a tick whose drained batch holds a matching begin event and no
\* matching end event the flag is true (Airborne -> Grounded); after a tick
\* whose batch holds a matching end event and no matching begin event it is
\* false (Grounded -> Airborne).
C2_BeginGroundsEndUngrounds ==
    Drained =>
        /\ (MatchingBegin /\ ~MatchingEnd => m_feetOnGround)
        /\ (MatchingEnd /\ ~MatchingBegin => ~m_feetOnGround)

\* Reached: Grounded -> Airborne, in a tick whose jump still found the Player
\* grounded and whose batch held the foot sensor's end event alone.
C2_Witness ==
    /\ Drained
    /\ MatchingEnd /\ ~MatchingBegin
    /\ ~m_feetOnGround
    /\ NonHorizontal(calls) = <<JumpImpulse>>

\* C3: the flag is false after construction and goes from false to true only
\* in a drain whose batch holds a matching begin event, whatever keys and
\* other events came before: it is false up to the first such tick.
C3_FalseUntilFirstFootBegin ==
    /\ ~m_feetOnGround
    /\ [][~m_feetOnGround /\ m_feetOnGround' =>
             pc = "handle_sensor_events" /\ MatchingBegin]_vars

\* Reached: the third tick ends with the flag still false after batches of
\* other events, a foot end event among them, and a jump key.
C3_Witness ==
    /\ TickEnded
    /\ tick = 3
    /\ ~m_feetOnGround
    /\ input.SPACE
    /\ b2SensorEvents.endEvents = <<m_footID>>
    /\ b2SensorEvents.beginEvents = <<StaleFootId>>

\* C4: once the jump statement of a tick has run, the tick's impulses that are
\* not horizontal are: none when the jump key was not pressed or the flag was
\* false, and exactly the one impulse (0, -(mass * 10)) when it was pressed
\* with the flag true.
C4_JumpGated ==
    pc \in {"player_update", "world_step", "handle_sensor_events"} =>
        NonHorizontal(calls) =
            IF input.SPACE /\ m_feetOnGround THEN <<JumpImpulse>> ELSE <<>>

\* Reached: the jump key pressed while grounded, the impulse applied.
C4_Witness ==
    /\ pc = "player_update"
    /\ input.SPACE
    /\ m_feetOnGround
    /\ Len(calls) >= 1
    /\ calls[Len(calls)] = JumpImpulse

\* C5: a tick applies at most one horizontal impulse, and with both D and A
\* held it applies exactly one, the move-right impulse (+mass * 0.5, 0).
C5_AtMostOneHorizontalRightWins ==
    /\ Len(Horizontal(calls)) <= 1
    /\ (input.D /\ input.A => Horizontal(calls) = <<RightImpulse>>)

\* Reached: both keys held, the key branch done.
C5_Witness ==
    /\ pc = "update_jump"
    /\ input.D
    /\ input.A

\* C6: over N consecutive ticks with only move-right held the key branch
\* applies N impulses (+mass * 0.5, 0) and no other; over N consecutive ticks
\* with only move-left held, N impulses (-(mass * 0.5), 0) and no other.
C6_HeldTicksEqualImpulses ==
    applied = [right |-> held.right, left |-> held.left, other |-> 0]

\* Reached: move-left alone held for two ticks running, the second tick ended.
C6_Witness ==
    /\ TickEnded
    /\ held.left = 2
    /\ applied.left = 2

\* C7: a tick in which no intent key was active applies no impulse, and its
\* World::update still made one world step and one sensor-event drain.
C7_NoKeyNoImpulse ==
    Drained /\ input = NoInput =>
        /\ Impulses(calls) = <<>>
        /\ Len(SelectCalls(calls, "b2World_Step")) = 1
        /\ Len(SelectCalls(calls, "b2World_GetSensorEvents")) = 1

\* Reached: a tick without keys for a grounded Player, who could have jumped.
C7_Witness ==
    /\ TickEnded
    /\ input = NoInput
    /\ m_feetOnGround
    /\ ~MatchingBegin

\* C8: in the calls of a tick, every impulse comes before the world step, the
\* world step before the drain and the drain before the draw; a tick that has
\* ended made exactly one world step and exactly one drain.
C8_TickOrder ==
    /\ \A i, j \in DOMAIN calls :
         /\ calls[i].op = "b2Body_ApplyLinearImpulse" /\ calls[j].op = "b2World_Step" => i < j
         /\ calls[i].op = "b2World_Step" /\ calls[j].op = "b2World_GetSensorEvents" => i < j
         /\ calls[i].op = "b2World_GetSensorEvents" /\ calls[j].op = "DrawRectangle" => i < j
    /\ TickEnded =>
         /\ Len(SelectCalls(calls, "b2World_Step")) = 1
         /\ Len(SelectCalls(calls, "b2World_GetSensorEvents")) = 1
         /\ Len(SelectCalls(calls, "DrawRectangle")) = 1

\* Reached: a tick with a horizontal and a jump impulse that ran to its end.
C8_Witness ==
    /\ TickEnded
    /\ Len(Impulses(calls)) = 2
    /\ MatchingEnd

\* C9: when World::update has returned (and when draw runs, and when the tick
\* ends) the Player's cached position is the engine's position of the body,
\* the one the step of that tick produced.
C9_CachedPositionIsCurrent ==
    Drained => m_centerPostion = b2Position

\* C10: when the world handle is destroyed, every body handle the World owns
\* (the Player's, each of m_platforms, each of m_invisibleWalls) has been
\* destroyed before it.
C10_BodiesDestroyedBeforeWorld ==
    \A i \in DOMAIN b2Destroyed :
        b2Destroyed[i].op = "b2DestroyWorld" =>
            \A b \in OwnedBodies :
                \E j \in 1..(i - 1) : b2Destroyed[j] = b2DestroyBody(b)

\* C11: unload runs once, after the loop has ended and never inside a tick:
\* handles are destroyed only in the unload steps, no handle is passed to
\* destroy twice, the run ends with exactly one destroy of the world, its last
\* call, and once unload has begun no impulse, step, event query or position
\* query is issued any more.
C11_UnloadOnceAfterLoop ==
    /\ [](/\ b2Destroyed # <<>> => pc \in {"unload_player", "destroy_world", "done"}
          /\ \A i, j \in DOMAIN b2Destroyed : b2Destroyed[i] = b2Destroyed[j] => i = j
          /\ pc = "done" =>
               /\ b2Destroyed # <<>>
               /\ b2Destroyed[Len(b2Destroyed)] = b2DestroyWorld(m_worldID))
    /\ [][b2Destroyed # <<>> =>
             /\ calls' = calls
             /\ b2Position' = b2Position
             /\ b2SensorEvents' = b2SensorEvents]_vars

\* Reached: the end of main after two ticks or more, unload done.
C11_Witness ==
    /\ pc = "done"
    /\ tick >= 2
    /\ Len(b2Destroyed) = Len(m_platforms) + 2

\* C12: a tick whose batch holds a matching begin event and no matching end
\* event ends grounded, and a grounded Player stays grounded through every
\* step but a drain whose batch holds a matching end event, whatever keys,
\* impulses and other events there are.
C12_GroundedUntilFootEnd ==
    /\ [](Drained /\ MatchingBegin /\ ~MatchingEnd => m_feetOnGround)
    /\ [][m_feetOnGround /\ ~m_feetOnGround' =>
             pc = "handle_sensor_events" /\ MatchingEnd]_vars

\* Reached: a Player grounded since an earlier tick, still grounded at the end
\* of the third, which jumped and drained end events of other shapes.
C12_Witness ==
    /\ TickEnded
    /\ tick = 3
    /\ feetAtTickStart
    /\ m_feetOnGround
    /\ NonHorizontal(calls) = <<JumpImpulse>>
    /\ b2SensorEvents = [beginEvents |-> <<>>,
                         endEvents |-> <<StaleFootId, PlatformShapeId>>]

\* C13: isShapeIdEqual holds of two handles exactly when they agree on
\* generation, index and owning world, so a drain changes the flag exactly on
\* the events that are the foot sensor's handle in all three: an event that
\* agrees with it on one or two components only leaves the flag as it is.
C13_AllComponentsCompared ==
    /\ [](\A a, b \in AllShapeIds : isShapeIdEqual(a, b) <=> a = b)
    /\ [][pc = "handle_sensor_events" =>
             m_feetOnGround' = IF MatchingEnd THEN FALSE
                               ELSE IF MatchingBegin THEN TRUE
                               ELSE m_feetOnGround]_vars

\* Reached: a grounded Player stays grounded through an end event of the foot
\* sensor's index and generation in another world.
C13_Witness ==
    /\ Drained
    /\ feetAtTickStart
    /\ m_feetOnGround
    /\ b2SensorEvents.endEvents = <<[index1 |-> 2, world0 |-> 1, generation |-> 1]>>

\* C14: contacts are not counted.  After a tick that drained a single end
\* event of the foot sensor the flag is false, also when the engine still has
\* a shape overlapping the sensor, for which no end event has come.
C14_SingleEndClearsGrounded ==
    Drained /\ b2SensorEvents.endEvents = <<m_footID>> /\ b2Overlaps >= 1
        => ~m_feetOnGround

\* Reached: a grounded Player on two surfaces leaves one; the tick ends
\* airborne with one overlap left.
C14_Witness ==
    /\ TickEnded
    /\ feetAtTickStart
    /\ ~m_feetOnGround
    /\ b2Overlaps = 1
    /\ b2SensorEvents = [beginEvents |-> <<>>, endEvents |-> <<m_footID>>]

\* C15: no step changes a Platform's cached position or size (terrain or
\* boundary) or the Player's cached size; the Player's cached position changes
\* only in Player::update, to the engine's position of the body; and the
\* engine's position changes only in the world step, never from the cache.
C15_CacheWrittenOnlyByUpdate ==
    [][/\ m_platforms' = m_platforms
       /\ m_invisibleWalls' = m_invisibleWalls
       /\ m_size' = m_size
       /\ m_centerPostion' # m_centerPostion =>
            pc = "player_update" /\ m_centerPostion' = b2Position
       /\ b2Position' # b2Position => pc = "world_step"]_vars

\* Reached: Player::update has overwritten the cached position with a pose
\* the engine moved the body to; the platforms are as constructed.
C15_Witness ==
    /\ pc = "world_step"
    /\ m_centerPostion = <<px2M(31), px2M(301)>>
    /\ m_platforms = WorldPlatforms
    /\ m_invisibleWalls = WorldInvisibleWalls

\* C16: the begin events of a batch are all processed before its end events:
\* after a tick whose batch holds a matching end event the flag is false,
\* however many matching begin events the batch holds and whatever the flag
\* was before.
C16_EndWinsWithinBatch ==
    Drained /\ MatchingEnd => ~m_feetOnGround

\* Reached: a grounded Player's tick with a matching begin and a matching end
\* event in one batch ends airborne.
C16_Witness ==
    /\ TickEnded
    /\ feetAtTickStart
    /\ ~m_feetOnGround
    /\ b2SensorEvents = [beginEvents |-> <<m_footID>>, endEvents |-> <<m_footID>>]

\* C17: the jump of a tick is decided by the flag as the tick began, the value
\* the drain of the tick before left: the tick's non-horizontal impulses are
\* the jump impulse when the key was pressed and the flag was true then, and
\* none otherwise, whatever the tick's own drain made of the flag.
C17_JumpUsesPreviousDrain ==
    Drained =>
        NonHorizontal(calls) =
            IF input.SPACE /\ feetAtTickStart THEN <<JumpImpulse>> ELSE <<>>

\* Reached: the jump key pressed in the tick whose step reports the first
\* matching begin event: grounded at its end, and no impulse applied.
C17_Witness ==
    /\ TickEnded
    /\ input.SPACE
    /\ ~feetAtTickStart
    /\ m_feetOnGround
    /\ MatchingBegin
    /\ Impulses(calls) = <<>>

\* C18: setFootStatus(s) leaves the flag equal to s for both values of s and
\* of the flag, so a matching begin event for a grounded Player, or a matching
\* end event for an airborne one, duplicates included, leaves the flag where
\* it was.
C18_SetFootStatusIdempotent ==
    /\ \A status, feetOnGround \in BOOLEAN : setFootStatus(status, feetOnGround) = status
    /\ Drained /\ feetAtTickStart /\ MatchingBegin /\ ~MatchingEnd => m_feetOnGround
    /\ Drained /\ ~feetAtTickStart /\ MatchingEnd /\ ~MatchingBegin => ~m_feetOnGround

\* Reached: a grounded Player drains the matching begin event twice in one
\* batch and is still grounded.
C18_Witness ==
    /\ Drained
    /\ feetAtTickStart
    /\ m_feetOnGround
    /\ b2SensorEvents = [beginEvents |-> <<m_footID, m_footID>>, endEvents |-> <<>>]

====
